---------------------------- MODULE Spec2Model ----------------------------
(***************************************************************************)
(* Wake Vision loader (src/wake_vision_loader.py): label derivation from   *)
(* Open Images annotations and the class-balanced stream built from it.    *)
(*                                                                         *)
(* Numbers.  Confidences are integers counted in units of 1/GRID and the   *)
(* box coordinates of a record in units of 1/unit, unit a field of the     *)
(* record (GRID for the generated records); thresholds are pairs           *)
(* <<num, den>>.  Comparisons of the code's floating-point values are made *)
(* exactly, by cross multiplication; tf.cast(.., tf.int32) of a            *)
(* non-negative value is \div.                                             *)
(* A tensor is a sequence; index i of the code is index i+1 here.          *)
(***************************************************************************)
EXTENDS Integers, Sequences, FiniteSets, TLC

VARIABLES cfg, ds_split, count_person_samples, pc, mapped, it, taken,
          exhausted, out, ds_entry, labels, checked, split, epoch, first_pass

vars == <<cfg, ds_split, count_person_samples, pc, mapped, it, taken,
          exhausted, out, ds_entry, labels, checked, split, epoch, first_pass>>

stream_vars == <<ds_split, count_person_samples, mapped, it, taken, exhausted, out>>

label_vars == <<ds_entry, labels, checked>>

pass_vars == <<split, epoch, first_pass>>

-----------------------------------------------------------------------------
(* Bounds of the model *)

\* confidences, and the coordinates of the generated records, are multiples
\* of 1/GRID
GRID == 8

\* most bounding-box annotations (bobjects) of a record
MaxBoxes == 2

\* most image-level annotations (objects) of a record
MaxObjects == 2

\* most records of an input split
MaxLen == 3

\* largest count_person_samples
MaxQuota == 2

\* most passes over a returned dataset
MaxEpochs == 2

-----------------------------------------------------------------------------
(* Label values, wake_vision_loader.py lines 70, 87, 89 *)

POSITIVE == 1

AMBIGUOUS == -1

NEGATIVE == 0

\* The concept ids label_person_image_labels tests first (lines 51-67).
IMAGE_CORE_CONCEPTS ==
    <<14048, 20610, 11417, 8000, 2519, 9270, 9274, 9279, 9266, 6713, 11395,
      3895, 10483, 11417, 11417, 139, 20808>>

\* The concept ids label_person_image_labels tests second (lines 74-84).
IMAGE_AMBIGUOUS_CONCEPTS ==
    <<9273, 17150, 9282, 9272, 9283, 9276, 9278, 9275, 9269, 9281, 1661>>

\* The concept ids label_person_bbox_labels hands to check_bbox_label
\* (lines 98-105).
BBOX_CORE_CONCEPTS == <<68, 227, 307, 332, 50, 176, 501, 291>>

\* mutant: the raw match of lines 112-159 without the person concepts of
\* lines 145-159
BBOX_RAW_CONCEPTS_body_parts_only ==
    <<176, 14, 29, 147, 223, 567, 252, 572, 213, 502, 220, 20>>

\* The concept ids label_person_bbox_labels matches on the raw label tensor
\* (lines 112-159): body parts first, then the person concepts again.
BBOX_RAW_CONCEPTS ==
    <<176, 14, 29, 147, 223, 567, 252, 572, 213, 502, 220, 20,
      68, 227, 307, 332, 50, 501, 291>>

-----------------------------------------------------------------------------
(* Tensor helpers *)

\* tf.reduce_any over a tensor of booleans
reduce_any(t) == \E i \in DOMAIN t : t[i]

\* tf.equal(tf.constant(c), t): elementwise
tf_equal(c, t) == [i \in DOMAIN t |-> t[i] = c]

\* tf.where(mask), squeezed: the indices at which mask is true, ascending
RECURSIVE where_from(_, _)
where_from(mask, i) ==
    IF i > Len(mask) THEN <<>>
    ELSE IF mask[i] THEN <<i>> \o where_from(mask, i + 1)
    ELSE where_from(mask, i + 1)

where(mask) == where_from(mask, 1)

\* tensor[mask] is tf.boolean_mask, which is tf.gather(tensor, where(mask)):
\* the sizes of tensor and mask are not compared.  On the CPU, where tf.data
\* runs its map functions, gather raises InvalidArgumentError for an index
\* past the end of tensor.
gather_raises(tensor, indices) ==
    \E k \in DOMAIN indices : indices[k] > Len(tensor)

gather(tensor, indices) == [k \in DOMAIN indices |-> tensor[indices[k]]]

\* x / GRID >= thr, thr = <<num, den>>
greater_equal(x, thr) == x * thr[2] >= thr[1] * GRID

-----------------------------------------------------------------------------
(* check_image_level_label, lines 169-182 *)

\* line 170: the mask over the image-level labels
image_object_present_tensor(entry, label_number) ==
    tf_equal(label_number, entry.objects.label)

\* line 173: ds_entry["bobjects"]["bbox"][object_present_tensor] raises when a
\* matching image-level label sits at an index the bounding-box tensor lacks.
check_image_level_label_raises(entry, label_number) ==
    gather_raises(entry.bobjects.bbox,
                  where(image_object_present_tensor(entry, label_number)))

\* lines 173-182, when line 173 does not raise: the rows of bobjects.bbox at
\* the indices of the matching image-level labels, each of their four
\* coordinates compared with MIN_IMAGE_LEVEL_CONFIDENCE, reduced by any.
check_image_level_label(entry, label_number, c) ==
    LET confidence ==
            gather(entry.bobjects.bbox,
                   where(image_object_present_tensor(entry, label_number)))
        confident_object_present_tensor ==
            [k \in DOMAIN confidence |->
                [j \in 1..4 |->
                    greater_equal(confidence[k][j],
                                  c.MIN_IMAGE_LEVEL_CONFIDENCE)]]
    IN  \E k \in DOMAIN confident_object_present_tensor :
            reduce_any(confident_object_present_tensor[k])

-----------------------------------------------------------------------------
(* label_person_image_labels, lines 48-90.  The result is the sequence of *)
(* values assigned to ds_entry["person"]: one value, or none when a check  *)
(* raised before the assignment.  The elif condition is evaluated only     *)
(* when the if condition is false.                                         *)

label_person_image_labels(entry, c) ==
    IF \E i \in DOMAIN IMAGE_CORE_CONCEPTS :
            check_image_level_label_raises(entry, IMAGE_CORE_CONCEPTS[i])
    THEN <<>>
    ELSE IF reduce_any([i \in DOMAIN IMAGE_CORE_CONCEPTS |->
                check_image_level_label(entry, IMAGE_CORE_CONCEPTS[i], c)])
    THEN <<POSITIVE>>
    ELSE IF \E i \in DOMAIN IMAGE_AMBIGUOUS_CONCEPTS :
            check_image_level_label_raises(entry, IMAGE_AMBIGUOUS_CONCEPTS[i])
    THEN <<>>
    ELSE IF reduce_any([i \in DOMAIN IMAGE_AMBIGUOUS_CONCEPTS |->
                check_image_level_label(entry, IMAGE_AMBIGUOUS_CONCEPTS[i], c)])
    THEN <<AMBIGUOUS>>
    ELSE <<NEGATIVE>>

-----------------------------------------------------------------------------
(* check_bbox_label, lines 186-264 *)

\* lines 203-217: the simulated resize and centre crop
crop_geometry(entry, c) ==
    LET orig_image_h == entry.image[1]
        orig_image_w == entry.image[2]
        h == c.INPUT_SHAPE[1]
        w == c.INPUT_SHAPE[2]
        small_side == IF orig_image_h < orig_image_w THEN orig_image_h
                      ELSE orig_image_w
        \* lines 209-211: scale = h / small_side, then cast to int32
        cast_h == (orig_image_h * h) \div small_side
        cast_w == (orig_image_w * h) \div small_side
        image_h == IF cast_h > h THEN cast_h ELSE h
        image_w == IF cast_w > w THEN cast_w ELSE w
    IN  [orig_image_h |-> orig_image_h, orig_image_w |-> orig_image_w,
         h |-> h, w |-> w, image_h |-> image_h, image_w |-> image_w,
         dy |-> (image_h - h) \div 2, dx |-> (image_w - w) \div 2,
         unit |-> entry.unit]

\* lines 218-221: the crop window, as fractions crop_y_min = dy / image_h, ...
\* lines 225-231: "bbox is complete outside of crop"
outside_crop(bb, g) ==
    \/ bb[1] * g.image_h > (g.dy + g.h) * g.unit    \* bb[0] > crop_y_max
    \/ bb[3] * g.image_h < g.dy * g.unit            \* bb[2] < crop_y_min
    \/ bb[2] * g.image_w > (g.dx + g.w) * g.unit    \* bb[1] > crop_x_max
    \/ bb[4] * g.image_w < g.dx * g.unit            \* bb[3] < crop_x_min

\* lines 234-245: "orig pixel values of bounding box"
bb_pixel(coord, orig_side, unit) == (coord * orig_side) \div unit

\* lines 248-256, as numerators: the y values over h, the x values over w
tmp_bb_y_min(bb, g) ==
    IF bb[1] * g.image_h > g.dy * g.unit
    THEN bb_pixel(bb[1], g.orig_image_h, g.unit) - g.dy ELSE 0

\* mutant: line 254 without the boundary rule, the rescaled value always
tmp_bb_y_max_rescaled(bb, g) == bb_pixel(bb[3], g.orig_image_h, g.unit) - g.dy

tmp_bb_y_max(bb, g) ==
    IF bb[3] * g.image_h < (g.dy + g.h) * g.unit
    THEN bb_pixel(bb[3], g.orig_image_h, g.unit) - g.dy ELSE g.h

tmp_bb_x_min(bb, g) ==
    IF bb[2] * g.image_w > g.dx * g.unit
    THEN bb_pixel(bb[2], g.orig_image_w, g.unit) - g.dx ELSE 0

tmp_bb_x_max(bb, g) ==
    IF bb[4] * g.image_w < (g.dx + g.w) * g.unit
    THEN bb_pixel(bb[4], g.orig_image_w, g.unit) - g.dx ELSE g.w

\* lines 258-259
bb_effective_height(bb, g) == tmp_bb_y_max(bb, g) - tmp_bb_y_min(bb, g)

bb_effective_width(bb, g) == tmp_bb_x_max(bb, g) - tmp_bb_x_min(bb, g)

\* line 261: (bb_effective_height * bb_effective_width) > cfg.MIN_BBOX_SIZE
exceeds_min_bbox_size(bb, g, c) ==
    bb_effective_height(bb, g) * bb_effective_width(bb, g) * c.MIN_BBOX_SIZE[2]
        > c.MIN_BBOX_SIZE[1] * g.h * g.w

\* lines 223-262: the loop over the selected boxes
RECURSIVE bounding_box_loop(_, _, _, _, _)
bounding_box_loop(bounding_boxes, i, return_value, g, c) ==
    IF i > Len(bounding_boxes) THEN return_value
    ELSE IF outside_crop(bounding_boxes[i], g)
    THEN bounding_box_loop(bounding_boxes, i + 1, return_value, g, c)
    ELSE IF exceeds_min_bbox_size(bounding_boxes[i], g, c)
    THEN bounding_box_loop(bounding_boxes, i + 1, TRUE, g, c)
    ELSE bounding_box_loop(bounding_boxes, i + 1, return_value, g, c)

\* mutant: the depiction mask of lines 193-198 left out
object_present_tensor_with_depictions(entry, label_number) ==
    tf_equal(label_number, entry.bobjects.label)

\* lines 188-198: the boxes of the concept that are not depictions
non_depiction_object_present_tensor(entry, label_number) ==
    LET object_present_tensor == tf_equal(label_number, entry.bobjects.label)
        depiction_tensor == tf_equal(0, entry.bobjects.is_depiction)
    IN  [i \in DOMAIN object_present_tensor |->
            object_present_tensor[i] /\ depiction_tensor[i]]

check_bbox_label(entry, label_number, c) ==
    LET bounding_boxes ==
            gather(entry.bobjects.bbox,
                   where(non_depiction_object_present_tensor(entry, label_number)))
    IN  bounding_box_loop(bounding_boxes, 1, FALSE, crop_geometry(entry, c), c)

-----------------------------------------------------------------------------
(* label_person_bbox_labels, lines 93-165 *)

\* mutant: the empty-annotation test of lines 94-95 left out
label_person_bbox_labels_no_empty_test(entry, c) ==
    IF reduce_any([i \in DOMAIN BBOX_CORE_CONCEPTS |->
                check_bbox_label(entry, BBOX_CORE_CONCEPTS[i], c)])
    THEN <<POSITIVE>>
    ELSE IF \E i \in DOMAIN BBOX_RAW_CONCEPTS :
            reduce_any(tf_equal(BBOX_RAW_CONCEPTS[i], entry.bobjects.label))
    THEN <<AMBIGUOUS>>
    ELSE <<NEGATIVE>>

\* mutant: the concepts of lines 112-159 put through check_bbox_label
\* instead of being matched on the raw label tensor
label_person_bbox_labels_all_sized(entry, c) ==
    IF Len(entry.bobjects.label) = 0 THEN <<AMBIGUOUS>>
    ELSE IF reduce_any([i \in DOMAIN BBOX_CORE_CONCEPTS |->
                check_bbox_label(entry, BBOX_CORE_CONCEPTS[i], c)])
    THEN <<POSITIVE>>
    ELSE IF \E i \in DOMAIN BBOX_RAW_CONCEPTS :
            check_bbox_label(entry, BBOX_RAW_CONCEPTS[i], c)
    THEN <<AMBIGUOUS>>
    ELSE <<NEGATIVE>>

label_person_bbox_labels(entry, c) ==
    IF Len(entry.bobjects.label) = 0 THEN <<AMBIGUOUS>>
    ELSE IF reduce_any([i \in DOMAIN BBOX_CORE_CONCEPTS |->
                check_bbox_label(entry, BBOX_CORE_CONCEPTS[i], c)])
    THEN <<POSITIVE>>
    ELSE IF \E i \in DOMAIN BBOX_RAW_CONCEPTS :
            reduce_any(tf_equal(BBOX_RAW_CONCEPTS[i], entry.bobjects.label))
    THEN <<AMBIGUOUS>>
    ELSE <<NEGATIVE>>

\* lines 267-272
person_filter(person) == person = POSITIVE

\* mutant: everything that is not a person passes
non_person_filter_not_person(person) == person # POSITIVE

non_person_filter(person) == person = NEGATIVE

-----------------------------------------------------------------------------
(* Inputs *)

\* lines 30-31: person_ds and non_person_ds
Streams == {"person", "non_person"}

SeqsUpTo(S, n) == UNION {[1..k -> S] : k \in 0..n}

\* a record of partial_open_images_v7 from its annotation lists, the box
\* coordinates counted in units of 1/GRID
Entry(image, objs, anns) ==
    [unit |-> GRID,
     image |-> image,
     objects |-> [label |-> [i \in DOMAIN objs |-> objs[i].label],
                  confidence |-> [i \in DOMAIN objs |-> objs[i].confidence]],
     bobjects |-> [label |-> [i \in DOMAIN anns |-> anns[i].label],
                   bbox |-> [i \in DOMAIN anns |-> anns[i].bbox],
                   is_depiction |-> [i \in DOMAIN anns |-> anns[i].is_depiction]]]

\* boxes <<y_min, x_min, y_max, x_max>>
FullBox == <<0, 0, GRID, GRID>>

CornerBox == <<0, 0, 1, 1>>

HalfBox == <<0, 0, 4, GRID>>

Boxes ==
    {FullBox, CornerBox, HalfBox, <<0, 0, 4, 4>>, <<4, 4, GRID, GRID>>,
     <<3, 3, 5, 5>>, <<5, 5, GRID, GRID>>}

\* Person, Woman, Human eye and a concept of neither list
ImageLabels == {14048, 20610, 9273, 4000}

\* Person, Human body, Human eye and a concept of neither list
BboxLabels == {68, 176, 14, 100}

ImageAnnotations == [label : ImageLabels, confidence : {1, GRID}]

\* annotations of every concept, over the whole image or its upper half
ConceptAnnotations ==
    [label : BboxLabels, is_depiction : {0, 1}, bbox : {FullBox, HalfBox}]

\* Person annotations of every box
PersonAnnotations == [label : {68}, is_depiction : {0, 1}, bbox : Boxes]

BboxAnnotationLists ==
    SeqsUpTo(ConceptAnnotations, MaxBoxes) \cup SeqsUpTo(PersonAnnotations, MaxBoxes)

PlainAnnotations ==
    [label : {100}, is_depiction : {0}, bbox : {FullBox, CornerBox, <<3, 3, 5, 5>>}]

Shapes == {<<4, 4>>, <<8, 4>>, <<4, 8>>, <<16, 8>>}

\* the records labelled with the bounding boxes: every image-level list
\* beside an empty box list, a confident Person label beside the others
BboxRecords ==
    {Entry(sh, o, <<>>) : sh \in Shapes, o \in SeqsUpTo(ImageAnnotations, MaxObjects)}
    \cup {Entry(sh, <<[label |-> 14048, confidence |-> GRID]>>, a) :
            sh \in Shapes, a \in BboxAnnotationLists \ {<<>>}}

\* the records labelled with the image-level labels
ImageRecords ==
    {Entry(<<4, 4>>, o, a) : o \in SeqsUpTo(ImageAnnotations, MaxObjects),
                             a \in SeqsUpTo(PlainAnnotations, MaxBoxes)}

BboxCfgs ==
    [LABEL_TYPE : {"bbox"}, MIN_IMAGE_LEVEL_CONFIDENCE : {<<1, 2>>},
     MIN_BBOX_SIZE : {<<1, 4>>, <<1, 2>>}, INPUT_SHAPE : {<<4, 4>>}]

ImageCfgs ==
    [LABEL_TYPE : {"image"}, MIN_IMAGE_LEVEL_CONFIDENCE : {<<1, 2>>, <<9, 10>>},
     MIN_BBOX_SIZE : {<<1, 20>>}, INPUT_SHAPE : {<<4, 4>>}]

\* the records of the input splits
PersonRecord ==
    Entry(<<4, 4>>, <<[label |-> 14048, confidence |-> GRID]>>,
          <<[label |-> 68, is_depiction |-> 0, bbox |-> FullBox]>>)

NoPersonRecord ==
    Entry(<<4, 4>>, <<[label |-> 4000, confidence |-> GRID]>>,
          <<[label |-> 100, is_depiction |-> 0, bbox |-> FullBox]>>)

BodyPartRecord ==
    Entry(<<4, 4>>, <<[label |-> 9273, confidence |-> GRID]>>,
          <<[label |-> 14, is_depiction |-> 0, bbox |-> FullBox]>>)

UnboxedPersonRecord ==
    Entry(<<4, 4>>, <<[label |-> 14048, confidence |-> GRID]>>, <<>>)

\* a depiction of a person: an image-level Person label of middling
\* confidence and a Person box marked as a depiction
DepictionRecord ==
    Entry(<<4, 4>>, <<[label |-> 14048, confidence |-> 5]>>,
          <<[label |-> 68, is_depiction |-> 1, bbox |-> <<0, 0, 5, 5>>]>>)

SplitRecords ==
    {PersonRecord, NoPersonRecord, BodyPartRecord, UnboxedPersonRecord,
     DepictionRecord}

SplitCfgs ==
    [LABEL_TYPE : {"image", "bbox", "segmentation"},
     MIN_IMAGE_LEVEL_CONFIDENCE : {<<1, 2>>},
     MIN_BBOX_SIZE : {<<1, 20>>}, INPUT_SHAPE : {<<4, 4>>}]

\* images whose resized long side, 5 * 4 / 3, is not a whole number
RoundingRecords ==
    {Entry(sh, <<[label |-> 14048, confidence |-> GRID]>>, <<a>>) :
        sh \in {<<5, 3>>, <<3, 5>>}, a \in PersonAnnotations}

\* a 1000 x 500 image with one Person box (0.3, 0.1, 0.7, 0.5), in tenths
ScenarioRecord ==
    [unit |-> 10,
     image |-> <<1000, 500>>,
     objects |-> [label |-> <<14048>>, confidence |-> <<GRID>>],
     bobjects |-> [label |-> <<68>>, bbox |-> <<<<3, 1, 7, 5>>>>,
                   is_depiction |-> <<0>>]]

ScenarioCfg ==
    [LABEL_TYPE |-> "bbox", MIN_IMAGE_LEVEL_CONFIDENCE |-> <<1, 2>>,
     MIN_BBOX_SIZE |-> <<1, 20>>, INPUT_SHAPE |-> <<224, 224>>]

NoCheck == [fn |-> "none", label_number |-> 0, raised |-> FALSE, value |-> FALSE]

-----------------------------------------------------------------------------
(* open_images_to_vww2, lines 11-45: the stages of the returned dataset *)

\* experiment_config.default_cfg, imported at line 4
default_cfg ==
    [LABEL_TYPE |-> "image", MIN_IMAGE_LEVEL_CONFIDENCE |-> <<7, 10>>,
     MIN_BBOX_SIZE |-> <<1, 20>>, INPUT_SHAPE |-> <<4, 4>>]

\* lines 13-23: the map stage.  With LABEL_TYPE "image" the function is
\* mapped bare, so its cfg parameter takes its default.
map_fn(c, entry) ==
    IF c.LABEL_TYPE = "image" THEN label_person_image_labels(entry, default_cfg)
    ELSE label_person_bbox_labels(entry, c)

\* lines 30-31: the two filtered sub-streams
filter_fn(s, person) ==
    IF s = "person" THEN person_filter(person) ELSE non_person_filter(person)

\* mutant: take hands out one element too many
take_has_more_inclusive(count, i) == count < 0 \/ i <= count

\* lines 34-35: take(count) hands out its i-th element only while i < count
\* (a negative count takes everything)
take_has_more(count, i) == count < 0 \/ i < count

\* filter over map: read the mapped split from index j on until an element
\* passes the filter, the map function raises, or the split ends.  ds is
\* the map stage's result for each element of the split, in order.
RECURSIVE filter_next(_, _, _)
filter_next(s, j, ds) ==
    IF j > Len(ds) THEN [kind |-> "end", at |-> Len(ds)]
    ELSE IF ds[j] = <<>> THEN [kind |-> "raise", at |-> j]
    ELSE IF filter_fn(s, ds[j][1]) THEN [kind |-> "elem", at |-> j]
    ELSE filter_next(s, j + 1, ds)

\* one pull on sub-stream s = filter(...).take(count)
pull(s, st, ds, count) ==
    IF ~take_has_more(count, st.taken[s]) THEN [kind |-> "end", at |-> st.it[s]]
    ELSE filter_next(s, st.it[s] + 1, ds)

\* mutant: stop_on_empty_dataset=True
after_empty_stop(order) == <<>>

\* lines 39-43, stop_on_empty_dataset=False: the sub-streams still to be
\* tried, in the drawn order, after the one drawn first turned out empty
after_empty(order) == Tail(order)

\* lines 39-43: one get_next of sample_from_datasets.  order is the random
\* draw order over the sub-streams not yet known to be exhausted.
RECURSIVE draw(_, _, _, _)
draw(order, st, ds, count) ==
    IF order = <<>> THEN [st EXCEPT !.pc = "done"]
    ELSE LET s == Head(order)
             r == pull(s, st, ds, count)
         IN  CASE r.kind = "elem" ->
                    [st EXCEPT !.it[s] = r.at,
                               !.taken[s] = @ + 1,
                               !.out = Append(@, [at |-> r.at,
                                                  person |-> ds[r.at][1]])]
               [] r.kind = "raise" ->
                    [st EXCEPT !.it[s] = r.at, !.pc = "failed"]
               [] OTHER ->
                    draw(after_empty(order),
                         [st EXCEPT !.it[s] = r.at, !.exhausted[s] = TRUE],
                         ds, count)

\* line 42: rerandomize_each_iteration=True, whatever the split
rerandomize_each_iteration == TRUE

\* sample_from_datasets draws with the seed of the first pass again unless
\* it rerandomizes: a later pass then hands out what the first one did
replays(st) ==
    /\ Len(st.out) <= Len(first_pass)
    /\ \A k \in DOMAIN st.out : st.out[k] = first_pass[k]

\* the draw orders over a set of sub-streams
Orders(S) ==
    {o \in [1..Cardinality(S) -> S] :
        \A i, j \in DOMAIN o : i # j => o[i] # o[j]}

iterator_state == [it |-> it, taken |-> taken, exhausted |-> exhausted,
                   out |-> out, pc |-> pc]

-----------------------------------------------------------------------------
(* The balanced stream: open_images_to_vww2 and one pass over its result *)

Init ==
    /\ cfg \in SplitCfgs
    /\ ds_split \in SeqsUpTo(SplitRecords, MaxLen)
    /\ count_person_samples \in 0..MaxQuota
    /\ pc = "start"
    /\ mapped = <<>>
    /\ it = [s \in Streams |-> 0]
    /\ taken = [s \in Streams |-> 0]
    /\ exhausted = [s \in Streams |-> FALSE]
    /\ out = <<>>
    /\ ds_entry = NoPersonRecord
    /\ labels = <<>>
    /\ checked = NoCheck
    /\ split = "train"
    /\ epoch = 1
    /\ first_pass = <<>>

\* lines 13-45: the call returns the dataset, which is then iterated.
\* mapped records what the map stage yields for each element of the split
\* (no value where the map function raises); the elements are computed when
\* they are read, and the functions are pure.
open_images_to_vww2_returns ==
    /\ pc = "start"
    /\ cfg.LABEL_TYPE \in {"image", "bbox"}
    /\ mapped' = [i \in DOMAIN ds_split |-> map_fn(cfg, ds_split[i])]
    /\ pc' = "iterating"
    /\ UNCHANGED <<cfg, ds_split, count_person_samples, it, taken, exhausted,
                   out, label_vars, pass_vars>>

\* lines 24-27
open_images_to_vww2_raises ==
    /\ pc = "start"
    /\ cfg.LABEL_TYPE \notin {"image", "bbox"}
    /\ pc' = "ValueError"
    /\ UNCHANGED <<cfg, stream_vars, label_vars, pass_vars>>

\* the iterator's state after a get_next that drew in this order
drawn(order) == draw(order, iterator_state, mapped, count_person_samples)

install(st) ==
    /\ rerandomize_each_iteration \/ epoch = 1 \/ replays(st)
    /\ pc' = st.pc
    /\ it' = st.it
    /\ taken' = st.taken
    /\ exhausted' = st.exhausted
    /\ out' = st.out
    /\ UNCHANGED <<cfg, ds_split, count_person_samples, mapped, label_vars,
                   pass_vars>>

\* one get_next on the returned dataset: it hands out an element,
get_next_element ==
    /\ pc = "iterating"
    /\ \E order \in Orders({s \in Streams : ~exhausted[s]}) :
         LET st == drawn(order)
         IN  st.pc = "iterating" /\ install(st)

\* or finds the dataset at its end,
get_next_end_of_sequence ==
    /\ pc = "iterating"
    /\ \E order \in Orders({s \in Streams : ~exhausted[s]}) :
         LET st == drawn(order)
         IN  st.pc = "done" /\ install(st)

\* or raises the error of the map function
get_next_raises ==
    /\ pc = "iterating"
    /\ \E order \in Orders({s \in Streams : ~exhausted[s]}) :
         LET st == drawn(order)
         IN  st.pc = "failed" /\ install(st)

Next ==
    \/ open_images_to_vww2_returns
    \/ open_images_to_vww2_raises
    \/ get_next_element
    \/ get_next_end_of_sequence
    \/ get_next_raises

Spec == Init /\ [][Next]_vars

\* the consumer of the dataset keeps pulling until the pass ends
FairSpec == Spec /\ WF_vars(Next)

-----------------------------------------------------------------------------
(* get_wake_vision, lines 325-331: the dataset of each split, iterated over *)
(* several epochs                                                          *)

Splits == {"train", "validation", "test"}

\* lines 325-331: open_images_to_vww2 is called for each split with the
\* split's records, its COUNT_PERSON_SAMPLES and the same cfg
InitEpochs ==
    /\ split \in Splits
    /\ cfg \in SplitCfgs
    /\ ds_split \in SeqsUpTo(SplitRecords, MaxLen)
    /\ count_person_samples \in 0..MaxQuota
    /\ pc = "start"
    /\ mapped = <<>>
    /\ it = [s \in Streams |-> 0]
    /\ taken = [s \in Streams |-> 0]
    /\ exhausted = [s \in Streams |-> FALSE]
    /\ out = <<>>
    /\ epoch = 1
    /\ first_pass = <<>>
    /\ ds_entry = NoPersonRecord
    /\ labels = <<>>
    /\ checked = NoCheck

\* the dataset is iterated again after a full pass (the next epoch): a new
\* iterator over the dataset of lines 39-43
new_iterator ==
    /\ pc = "done"
    /\ epoch < MaxEpochs
    /\ epoch' = epoch + 1
    /\ first_pass' = IF epoch = 1 THEN out ELSE first_pass
    /\ pc' = "iterating"
    /\ it' = [s \in Streams |-> 0]
    /\ taken' = [s \in Streams |-> 0]
    /\ exhausted' = [s \in Streams |-> FALSE]
    /\ out' = <<>>
    /\ UNCHANGED <<cfg, ds_split, count_person_samples, mapped, split, label_vars>>

NextEpochs ==
    \/ open_images_to_vww2_returns
    \/ open_images_to_vww2_raises
    \/ get_next_element
    \/ get_next_end_of_sequence
    \/ get_next_raises
    \/ new_iterator

EpochSpec == InitEpochs /\ [][NextEpochs]_vars

-----------------------------------------------------------------------------
(* The label functions applied to single records *)

InitLabel ==
    /\ \/ cfg \in BboxCfgs /\ ds_entry \in BboxRecords \cup RoundingRecords
       \/ cfg \in ImageCfgs /\ ds_entry \in ImageRecords
       \/ cfg = ScenarioCfg /\ ds_entry = ScenarioRecord
    /\ pc = "input"
    /\ labels = <<>>
    /\ checked = NoCheck
    /\ split = "train"
    /\ epoch = 1
    /\ first_pass = <<>>
    /\ ds_split = <<>>
    /\ count_person_samples = 0
    /\ mapped = <<>>
    /\ it = [s \in Streams |-> 0]
    /\ taken = [s \in Streams |-> 0]
    /\ exhausted = [s \in Streams |-> FALSE]
    /\ out = <<>>

\* label the record, a first and a second time
apply_label_person_image_labels ==
    /\ cfg.LABEL_TYPE = "image"
    /\ pc \in {"input", "labelled"}
    /\ Len(labels) < 2
    /\ labels' = Append(labels, label_person_image_labels(ds_entry, cfg))
    /\ pc' = "labelled"
    /\ UNCHANGED <<cfg, stream_vars, ds_entry, checked, pass_vars>>

apply_label_person_bbox_labels ==
    /\ cfg.LABEL_TYPE = "bbox"
    /\ pc \in {"input", "labelled"}
    /\ Len(labels) < 2
    /\ labels' = Append(labels, label_person_bbox_labels(ds_entry, cfg))
    /\ pc' = "labelled"
    /\ UNCHANGED <<cfg, stream_vars, ds_entry, checked, pass_vars>>

apply_check_image_level_label ==
    /\ cfg.LABEL_TYPE = "image"
    /\ pc = "input"
    /\ \E label_number \in ImageLabels :
         checked' =
            [fn |-> "check_image_level_label", label_number |-> label_number,
             raised |-> check_image_level_label_raises(ds_entry, label_number),
             value |-> /\ ~check_image_level_label_raises(ds_entry, label_number)
                       /\ check_image_level_label(ds_entry, label_number, cfg)]
    /\ pc' = "checked"
    /\ UNCHANGED <<cfg, stream_vars, ds_entry, labels, pass_vars>>

apply_check_bbox_label ==
    /\ cfg.LABEL_TYPE = "bbox"
    /\ pc = "input"
    /\ \E label_number \in BboxLabels :
         checked' =
            [fn |-> "check_bbox_label", label_number |-> label_number,
             raised |-> FALSE,
             value |-> check_bbox_label(ds_entry, label_number, cfg)]
    /\ pc' = "checked"
    /\ UNCHANGED <<cfg, stream_vars, ds_entry, labels, pass_vars>>

NextLabel ==
    \/ apply_label_person_image_labels
    \/ apply_label_person_bbox_labels
    \/ apply_check_image_level_label
    \/ apply_check_bbox_label

LabelSpec == InitLabel /\ [][NextLabel]_vars

-----------------------------------------------------------------------------
(* Properties of the balanced stream *)

\* how many elements of the mapped split carry the label, and how many
\* handed-out records do
available(person) ==
    Cardinality({i \in DOMAIN mapped : mapped[i] = <<person>>})

emitted(person) ==
    Cardinality({k \in DOMAIN out : out[k].person = person})

Min(a, b) == IF a < b THEN a ELSE b

\* C1: every record the stream returned by open_images_to_vww2 hands out
\* carries person = 1 or person = 0, as does the element of the mapped split
\* it comes from: no AMBIGUOUS record is ever handed out.
C1_NoAmbiguousEmitted ==
    \A k \in DOMAIN out :
        /\ out[k].person \in {POSITIVE, NEGATIVE}
        /\ mapped[out[k].at] = <<out[k].person>>

\* a finished pass that read past an AMBIGUOUS record and handed out others
C1_Witness ==
    /\ pc = "done"
    /\ \E i \in DOMAIN mapped, k \in DOMAIN out :
          mapped[i] = <<AMBIGUOUS>> /\ i < out[k].at

\* C2: at no point of a pass has the stream handed out more than
\* count_person_samples POSITIVE or more than count_person_samples NEGATIVE
\* records, and a full pass hands out exactly min(quota, available) of each.
C2_QuotaExact ==
    /\ emitted(POSITIVE) <= count_person_samples
    /\ emitted(NEGATIVE) <= count_person_samples
    /\ pc = "done" =>
          /\ emitted(POSITIVE) = Min(count_person_samples, available(POSITIVE))
          /\ emitted(NEGATIVE) = Min(count_person_samples, available(NEGATIVE))

\* a full pass in which the quota cut the positives short and the split
\* held no more negatives than the quota, all of them handed out
C2_Witness ==
    /\ pc = "done"
    /\ available(POSITIVE) > count_person_samples
    /\ available(NEGATIVE) >= 1
    /\ available(NEGATIVE) <= count_person_samples
    /\ emitted(POSITIVE) = count_person_samples
    /\ emitted(NEGATIVE) = available(NEGATIVE)

\* the elements of sub-stream s: the first count_person_samples elements of
\* the mapped split that pass its filter
sub_stream(s) ==
    {i \in DOMAIN mapped :
        /\ mapped[i] # <<>>
        /\ filter_fn(s, mapped[i][1])
        /\ Cardinality({j \in 1..i : mapped[j] # <<>> /\ filter_fn(s, mapped[j][1])})
              <= count_person_samples}

pending(s) == sub_stream(s) \ {out[k].at : k \in DOMAIN out}

Ended == pc \in {"done", "failed", "ValueError"}

\* C3: the merge ends only once both sub-streams are exhausted, having
\* handed out every element of both; a get_next made while a sub-stream
\* still has pending elements never ends the pass; and the pass of a finite
\* split eventually ends.
C3_MergeContinues ==
    /\ [](pc = "done" =>
            \A s \in Streams : exhausted[s] /\ pending(s) = {})
    /\ [][(\E s \in Streams : pending(s) # {}) => pc' # "done"]_vars
    /\ <>Ended

\* one sub-stream is exhausted, and the merge has since handed out an
\* element of the other, which has more pending
C3_Witness ==
    /\ pc = "iterating"
    /\ out # <<>>
    /\ \E s, t \in Streams :
          /\ exhausted[s]
          /\ ~exhausted[t]
          /\ filter_fn(t, out[Len(out)].person)
          /\ pending(t) # {}
          /\ pending(s) = {}
          /\ sub_stream(s) # {}

-----------------------------------------------------------------------------
(* Properties of the label functions *)

Labelled == pc = "labelled"

BBOX_BODY_PART_CONCEPTS == {14, 29, 147, 223, 567, 252, 572, 213, 502, 220, 20}

carries(entry, concepts) ==
    \E i \in DOMAIN entry.bobjects.label : entry.bobjects.label[i] \in concepts

core_set(concepts) == {concepts[i] : i \in DOMAIN concepts}

\* C4: labelling assigns exactly one value to person, one of -1, 0, 1, and
\* labelling the same record with the same configuration again gives the
\* same value.
C4_LabelTotalDeterministic ==
    /\ \A k \in DOMAIN labels :
          Len(labels[k]) = 1 /\ labels[k][1] \in {AMBIGUOUS, NEGATIVE, POSITIVE}
    /\ Len(labels) = 2 => labels[1] = labels[2]

\* C5: in either mode, a record for which the test of at least one core
\* person concept is true is labelled POSITIVE.
C5_CorePriority ==
    Labelled =>
        /\ (/\ cfg.LABEL_TYPE = "image"
            /\ \E c \in core_set(IMAGE_CORE_CONCEPTS) :
                  /\ ~check_image_level_label_raises(ds_entry, c)
                  /\ check_image_level_label(ds_entry, c, cfg))
              => labels[1] = <<POSITIVE>>
        /\ (/\ cfg.LABEL_TYPE = "bbox"
            /\ \E c \in core_set(BBOX_CORE_CONCEPTS) :
                  check_bbox_label(ds_entry, c, cfg))
              => labels[1] = <<POSITIVE>>

\* C6: with LABEL_TYPE "bbox" a record without bounding-box annotations is
\* labelled AMBIGUOUS, whatever its image-level annotations.
C6_NoBoxesAmbiguous ==
    (Labelled /\ cfg.LABEL_TYPE = "bbox" /\ Len(ds_entry.bobjects.label) = 0)
        => \A k \in DOMAIN labels : labels[k] = <<AMBIGUOUS>>

\* a box-less record with a confident image-level Person label, labelled
C6_Witness ==
    /\ Labelled
    /\ cfg.LABEL_TYPE = "bbox"
    /\ Len(ds_entry.bobjects.label) = 0
    /\ \E i \in DOMAIN ds_entry.objects.label :
          /\ ds_entry.objects.label[i] = 14048
          /\ ds_entry.objects.confidence[i] = GRID

\* C7: with LABEL_TYPE "bbox" a record whose boxes carry no core person
\* concept and at least one body-part concept is labelled AMBIGUOUS, for
\* every box size and depiction flag.
C7_BodyPartAmbiguous ==
    (/\ Labelled
     /\ cfg.LABEL_TYPE = "bbox"
     /\ ~carries(ds_entry, core_set(BBOX_CORE_CONCEPTS))
     /\ carries(ds_entry, BBOX_BODY_PART_CONCEPTS))
        => labels[1] = <<AMBIGUOUS>>

\* a "Human eye" box over half of the crop, not a depiction, and no core box
C7_Witness ==
    /\ Labelled
    /\ cfg.LABEL_TYPE = "bbox"
    /\ ds_entry.image = <<4, 4>>
    /\ ~carries(ds_entry, core_set(BBOX_CORE_CONCEPTS))
    /\ \E i \in DOMAIN ds_entry.bobjects.label :
          /\ ds_entry.bobjects.label[i] = 14
          /\ ds_entry.bobjects.is_depiction[i] = 0
          /\ ds_entry.bobjects.bbox[i] = HalfBox
          /\ 2 * bb_effective_height(HalfBox, crop_geometry(ds_entry, cfg))
               * bb_effective_width(HalfBox, crop_geometry(ds_entry, cfg))
             = cfg.INPUT_SHAPE[1] * cfg.INPUT_SHAPE[2]
    /\ \E i \in DOMAIN ds_entry.bobjects.label :
          ds_entry.bobjects.is_depiction[i] = 1

\* C8: with LABEL_TYPE "bbox" and at least one box: when some box carries a
\* core person concept and none passes the significance test the label is
\* AMBIGUOUS; the label is NEGATIVE exactly when no box carries a core
\* person concept or a body-part concept.
C8_BboxAmbiguousNegative ==
    (Labelled /\ cfg.LABEL_TYPE = "bbox" /\ Len(ds_entry.bobjects.label) >= 1)
        => /\ (/\ carries(ds_entry, core_set(BBOX_CORE_CONCEPTS))
               /\ \A c \in core_set(BBOX_CORE_CONCEPTS) :
                     ~check_bbox_label(ds_entry, c, cfg))
                 => labels[1] = <<AMBIGUOUS>>
           /\ labels[1] = <<NEGATIVE>>
                 <=> ~carries(ds_entry, core_set(BBOX_CORE_CONCEPTS)
                                         \cup BBOX_BODY_PART_CONCEPTS)

\* a record whose only Person box is real, inside the crop and too small,
\* labelled AMBIGUOUS
C8_Witness ==
    /\ Labelled
    /\ cfg.LABEL_TYPE = "bbox"
    /\ labels[1] = <<AMBIGUOUS>>
    /\ ~carries(ds_entry, BBOX_BODY_PART_CONCEPTS \cup {176})
    /\ \E i \in DOMAIN ds_entry.bobjects.label :
          /\ ds_entry.bobjects.label[i] = 68
          /\ ds_entry.bobjects.is_depiction[i] = 0
          /\ ~outside_crop(ds_entry.bobjects.bbox[i], crop_geometry(ds_entry, cfg))
    /\ \A i \in DOMAIN ds_entry.bobjects.label :
          ds_entry.bobjects.is_depiction[i] = 0

\* C9: check_image_level_label(record, c) is true exactly when an
\* image-level annotation of concept c has a confidence of at least
\* MIN_IMAGE_LEVEL_CONFIDENCE, whatever the bounding-box annotations.
C9_ImageLevelThreshold ==
    (pc = "checked" /\ checked.fn = "check_image_level_label")
        => /\ ~checked.raised
           /\ checked.value
                <=> \E i \in DOMAIN ds_entry.objects.label :
                       /\ ds_entry.objects.label[i] = checked.label_number
                       /\ greater_equal(ds_entry.objects.confidence[i],
                                        cfg.MIN_IMAGE_LEVEL_CONFIDENCE)

\* the box's extent meets the crop window [crop_min, crop_max] on both axes
overlaps_crop(bb, g) ==
    /\ bb[1] * g.image_h <= (g.dy + g.h) * g.unit
    /\ bb[3] * g.image_h >= g.dy * g.unit
    /\ bb[2] * g.image_w <= (g.dx + g.w) * g.unit
    /\ bb[4] * g.image_w >= g.dx * g.unit

\* box i of the record, alone, makes concept c significant
box_significant(entry, i, label_number, c) ==
    /\ entry.bobjects.label[i] = label_number
    /\ entry.bobjects.is_depiction[i] = 0
    /\ overlaps_crop(entry.bobjects.bbox[i], crop_geometry(entry, c))
    /\ exceeds_min_bbox_size(entry.bobjects.bbox[i], crop_geometry(entry, c), c)

\* C10: check_bbox_label(record, c) is true exactly when a single box of
\* concept c is not a depiction, overlaps the crop window and has an
\* effective area above MIN_BBOX_SIZE.
C10_PerBoxSignificance ==
    (pc = "checked" /\ checked.fn = "check_bbox_label")
        => checked.value
             <=> \E i \in DOMAIN ds_entry.bobjects.label :
                    box_significant(ds_entry, i, checked.label_number, cfg)

\* two real boxes of the concept inside the crop, each at the threshold and
\* together above it, and the check false
C10_Witness ==
    /\ pc = "checked"
    /\ checked.fn = "check_bbox_label"
    /\ ~checked.value
    /\ \E i, j \in DOMAIN ds_entry.bobjects.label :
          LET g == crop_geometry(ds_entry, cfg)
              bi == ds_entry.bobjects.bbox[i]
              bj == ds_entry.bobjects.bbox[j]
          IN  /\ i # j
              /\ \A k \in {i, j} :
                    /\ ds_entry.bobjects.label[k] = checked.label_number
                    /\ ds_entry.bobjects.is_depiction[k] = 0
                    /\ overlaps_crop(ds_entry.bobjects.bbox[k], g)
              /\ bi[3] <= bj[1]
              /\ (bb_effective_height(bi, g) * bb_effective_width(bi, g)
                  + bb_effective_height(bj, g) * bb_effective_width(bj, g))
                    * cfg.MIN_BBOX_SIZE[2]
                 > cfg.MIN_BBOX_SIZE[1] * g.h * g.w

-----------------------------------------------------------------------------
(* Properties of the crop geometry of check_bbox_label *)

\* the boxes of the checked record that the loop of check_bbox_label carries
\* past its outside-of-crop test
cropped_boxes ==
    {i \in DOMAIN ds_entry.bobjects.label :
        /\ ds_entry.bobjects.label[i] = checked.label_number
        /\ ds_entry.bobjects.is_depiction[i] = 0
        /\ ~outside_crop(ds_entry.bobjects.bbox[i], crop_geometry(ds_entry, cfg))}

\* (bb_pixel - crop_offset_pixel), over the target dimension
linear_rescale(coord, orig_side, offset, unit) ==
    ((coord * orig_side) \div unit) - offset

\* coord / unit > num / den, and coord / unit < num / den
beyond(coord, unit, num, den) == coord * den > num * unit

before(coord, unit, num, den) == coord * den < num * unit

\* all four edges of the box strictly inside the crop window
fully_inside(bb, g) ==
    /\ beyond(bb[1], g.unit, g.dy, g.image_h)
    /\ before(bb[3], g.unit, g.dy + g.h, g.image_h)
    /\ beyond(bb[2], g.unit, g.dx, g.image_w)
    /\ before(bb[4], g.unit, g.dx + g.w, g.image_w)

\* C11: for every box check_bbox_label rescales, on each axis the effective
\* minimum is the linear rescale (bb_pixel - offset) / target when the near
\* edge is strictly beyond the crop window's near boundary and exactly 0.0
\* otherwise, and the effective maximum is the linear rescale when the far
\* edge is strictly before the far boundary and exactly 1.0 otherwise.
C11_BoundaryExtension ==
    (pc = "checked" /\ checked.fn = "check_bbox_label")
        => \A i \in cropped_boxes :
              LET bb == ds_entry.bobjects.bbox[i]
                  g == crop_geometry(ds_entry, cfg)
              IN  /\ tmp_bb_y_min(bb, g) =
                        IF beyond(bb[1], g.unit, g.dy, g.image_h)
                        THEN linear_rescale(bb[1], g.orig_image_h, g.dy, g.unit)
                        ELSE 0
                  /\ tmp_bb_y_max(bb, g) =
                        IF before(bb[3], g.unit, g.dy + g.h, g.image_h)
                        THEN linear_rescale(bb[3], g.orig_image_h, g.dy, g.unit)
                        ELSE g.h
                  /\ tmp_bb_x_min(bb, g) =
                        IF beyond(bb[2], g.unit, g.dx, g.image_w)
                        THEN linear_rescale(bb[2], g.orig_image_w, g.dx, g.unit)
                        ELSE 0
                  /\ tmp_bb_x_max(bb, g) =
                        IF before(bb[4], g.unit, g.dx + g.w, g.image_w)
                        THEN linear_rescale(bb[4], g.orig_image_w, g.dx, g.unit)
                        ELSE g.w

\* a check that rescaled a box fully inside the crop window and a box that
\* runs past the window at both ends of the y axis
C11_Witness ==
    /\ pc = "checked"
    /\ checked.fn = "check_bbox_label"
    /\ \E i, j \in cropped_boxes :
          LET g == crop_geometry(ds_entry, cfg)
              bi == ds_entry.bobjects.bbox[i]
              bj == ds_entry.bobjects.bbox[j]
          IN  /\ g.dy > 0
              /\ fully_inside(bi, g)
              /\ ~beyond(bj[1], g.unit, g.dy, g.image_h)
              /\ ~before(bj[3], g.unit, g.dy + g.h, g.image_h)
              /\ tmp_bb_y_min(bj, g) = 0
              /\ tmp_bb_y_max(bj, g) = g.h

\* C12: every box check_bbox_label rescales (its input coordinates ordered
\* and between 0 and 1) gets effective edges between 0.0 and 1.0 with the
\* minimum not above the maximum on each axis.
C12_EffectiveBoxInUnitSquare ==
    (pc = "checked" /\ checked.fn = "check_bbox_label")
        => \A i \in cropped_boxes :
              LET bb == ds_entry.bobjects.bbox[i]
                  g == crop_geometry(ds_entry, cfg)
              IN  (/\ 0 <= bb[1] /\ bb[1] <= bb[3] /\ bb[3] <= g.unit
                   /\ 0 <= bb[2] /\ bb[2] <= bb[4] /\ bb[4] <= g.unit)
                    => /\ 0 <= tmp_bb_y_min(bb, g)
                       /\ tmp_bb_y_min(bb, g) <= tmp_bb_y_max(bb, g)
                       /\ tmp_bb_y_max(bb, g) <= g.h
                       /\ 0 <= tmp_bb_x_min(bb, g)
                       /\ tmp_bb_x_min(bb, g) <= tmp_bb_x_max(bb, g)
                       /\ tmp_bb_x_max(bb, g) <= g.w

\* C13: for the 1000 x 500 image and the 224 x 224 target the geometry is
\* resized (448, 224), dy = 112, dx = 0, the box (0.3, 0.1, 0.7, 0.5) has the
\* pixel box (300, 50, 700, 250), and its effective y extent is 0.839 (in
\* thousandths) to exactly 1.0.
C13_WorkedScenario ==
    (/\ pc = "checked"
     /\ checked.fn = "check_bbox_label"
     /\ ds_entry = ScenarioRecord
     /\ cfg = ScenarioCfg)
        => LET g == crop_geometry(ds_entry, cfg)
               bb == ds_entry.bobjects.bbox[1]
           IN  /\ g.image_h = 448 /\ g.image_w = 224
               /\ g.dy = 112 /\ g.dx = 0
               /\ bb_pixel(bb[1], g.orig_image_h, g.unit) = 300
               /\ bb_pixel(bb[2], g.orig_image_w, g.unit) = 50
               /\ bb_pixel(bb[3], g.orig_image_h, g.unit) = 700
               /\ bb_pixel(bb[4], g.orig_image_w, g.unit) = 250
               /\ (tmp_bb_y_min(bb, g) * 1000) \div g.h = 839
               /\ tmp_bb_y_max(bb, g) = g.h

Max(a, b) == IF a > b THEN a ELSE b

\* a / b rounded to the nearest whole number, halves to the even one
round(a, b) ==
    LET q == a \div b
        r == a % b
    IN  IF 2 * r > b THEN q + 1
        ELSE IF 2 * r < b THEN q
        ELSE IF q % 2 = 0 THEN q ELSE q + 1

\* C15: the resized side is max(target, round(orig * scale)) with
\* scale = target_height / min(orig_height, orig_width), the offsets are the
\* floor of half the excess over the target, and so the resized sides are at
\* least the target, the offsets are not negative and the crop window lies
\* inside the resized image.
C15_ResizeRounds ==
    (pc = "checked" /\ checked.fn = "check_bbox_label")
        => LET g == crop_geometry(ds_entry, cfg)
               small_side == Min(g.orig_image_h, g.orig_image_w)
           IN  /\ g.image_h = Max(g.h, round(g.orig_image_h * g.h, small_side))
               /\ g.image_w = Max(g.w, round(g.orig_image_w * g.h, small_side))
               /\ 2 * g.dy <= g.image_h - g.h /\ g.image_h - g.h < 2 * g.dy + 2
               /\ 2 * g.dx <= g.image_w - g.w /\ g.image_w - g.w < 2 * g.dx + 2
               /\ g.image_h >= g.h /\ g.image_w >= g.w
               /\ g.dy >= 0 /\ g.dx >= 0
               /\ g.dy + g.h <= g.image_h /\ g.dx + g.w <= g.image_w

-----------------------------------------------------------------------------
(* Properties of the configuration handling of open_images_to_vww2 *)

\* C14: with a LABEL_TYPE other than "image" and "bbox", a quota that is not
\* positive or a crop size that is not positive, open_images_to_vww2 raises
\* and returns no dataset: no stage is built and nothing is ever read.
C14_ConfigurationFailsFast ==
    (\/ cfg.LABEL_TYPE \notin {"image", "bbox"}
     \/ count_person_samples <= 0
     \/ cfg.INPUT_SHAPE[1] <= 0
     \/ cfg.INPUT_SHAPE[2] <= 0)
        => /\ pc \in {"start", "ValueError"}
           /\ mapped = <<>>
           /\ out = <<>>

\* C17: the dataset returned by open_images_to_vww2 labels every record with
\* the cfg it was called with, in both modes.
C17_PassedCfgUsed ==
    pc \in {"iterating", "done", "failed"}
        => \A i \in DOMAIN ds_split :
              mapped[i] = IF cfg.LABEL_TYPE = "image"
                          THEN label_person_image_labels(ds_split[i], cfg)
                          ELSE label_person_bbox_labels(ds_split[i], cfg)

-----------------------------------------------------------------------------
(* Properties of the passes over a split's dataset *)

\* C16: on the validation and test splits the draw order is not redrawn
\* between passes: a later pass hands out the records of the first pass in
\* the same order (on the training split each pass draws afresh).
C16_EvaluationNotRerandomized ==
    (split \in {"validation", "test"} /\ epoch >= 2)
        => /\ Len(out) <= Len(first_pass)
           /\ \A k \in DOMAIN out : out[k] = first_pass[k]

=============================================================================
